---- MODULE Spec2Model ----
(***************************************************************************)
(* ospurge: one run of main() (src/ospurge/ospurge.py).  The run resolves  *)
(* the project, optionally grants itself the admin role and enables the    *)
(* project, walks RESOURCES_CLASSES listing and deleting (or dumping) the  *)
(* resources of each class through the retry decorator, and finally either *)
(* deletes the project or restores the enabled flag and the role.          *)
(* The OpenStack services are the environment: what a listing returns and  *)
(* whether a call raises is chosen nondeterministically.                   *)
(***************************************************************************)
EXTENDS Integers, Sequences, FiniteSets, TLC

\* ------------------------------------------------------------ constants
RETRIES == 10

\* Bound: number of resources the project owns, over all classes.
MaxResources == 2

\* Bound: number of projects tenants.list() returns.
MaxTenants == 2

\* Bound: number of endpoints the catalog lists for one service.
MaxEntries == 2

NoSuchProject_ERROR_CODE == 2
AUTHENTICATION_FAILED_ERROR_CODE == 3
DeletionFailed_ERROR_CODE == 4
CONNECTION_ERROR_CODE == 5
NOT_AUTHORIZED == 6

\* mutant: the volumes purged with the other block-storage classes, first
RESOURCES_CLASSES_VolumesFirst ==
    << "CinderVolumes", "CinderSnapshots", "CinderBackups", "NovaServers",
       "NeutronFloatingIps", "NeutronInterfaces", "NeutronRouters",
       "NeutronPorts", "NeutronNetworks", "NeutronSecgroups", "GlanceImages",
       "SwiftObjects", "SwiftContainers" >>

\* mutant: the classes taken in sorted order
RESOURCES_CLASSES_Sorted ==
    << "CinderBackups", "CinderSnapshots", "CinderVolumes", "GlanceImages",
       "NeutronFloatingIps", "NeutronInterfaces", "NeutronNetworks",
       "NeutronPorts", "NeutronRouters", "NeutronSecgroups", "NovaServers",
       "SwiftContainers", "SwiftObjects" >>

RESOURCES_CLASSES ==
    << "CinderSnapshots", "CinderBackups", "NovaServers", "NeutronFloatingIps",
       "NeutronInterfaces", "NeutronRouters", "NeutronPorts", "NeutronNetworks",
       "NeutronSecgroups", "GlanceImages", "SwiftObjects", "SwiftContainers",
       "CinderVolumes" >>

NumClasses == Len(RESOURCES_CLASSES)

Services == {"volume", "compute", "network", "image", "object-store"}

\* Catalogs the runs are checked with: complete, or one service missing.
Catalogs == {Services} \cup {Services \ {s} : s \in Services}

\* The catalog entry each class needs: the client its constructor builds.
ServiceOf(rc) ==
    CASE rc \in {"CinderSnapshots", "CinderBackups", "CinderVolumes"} -> "volume"
      [] rc = "NovaServers" -> "compute"
      [] rc \in {"NeutronFloatingIps", "NeutronInterfaces", "NeutronRouters",
                 "NeutronPorts", "NeutronNetworks", "NeutronSecgroups"} -> "network"
      [] rc = "GlanceImages" -> "image"
      [] rc \in {"SwiftObjects", "SwiftContainers"} -> "object-store"

\* Project ids and project names of the auth backend; a project may be named
\* as another project's id is written.
ProjectIds == {"p1", "p2", "p3"}
ProjectNames == {"a", "b", "p1"}

\* self.client.tenant_id: the project the actor authenticated against
OwnProject == "p0"

\* Sequences over S of length at most k.
RECURSIVE SeqsUpTo(_, _)
SeqsUpTo(S, k) ==
    IF k = 0 THEN {<< >>}
    ELSE LET shorter == SeqsUpTo(S, k - 1) IN
         shorter \cup {Append(q, x) : q \in shorter, x \in S}

\* What tenants.list() can return: projects with distinct ids, in any order.
TenantLists ==
    {q \in SeqsUpTo([id : ProjectIds, name : ProjectNames], MaxTenants) :
        \A i, j \in 1 .. Len(q) : q[i].id = q[j].id => i = j}

\* What --cleanup-project is checked with.
ProjectRefs == ProjectIds \cup ProjectNames \cup {"zz"}

\* filter(lambda x: x.name == ref, tenants), a list
NamedLike(ref, tenantList) ==
    LET Same(t) == t.name = ref IN SelectSeq(tenantList, Same)

\* KeystoneManager.get_project_id when no backend call is refused:
\* << "ok", id >> or << "NoSuchProject", ref >>
get_project_id(ref, tenantList) ==
    IF ref = "None"
    THEN << "ok", OwnProject >>
    ELSE IF \E i \in 1 .. Len(tenantList) : tenantList[i].id = ref
    THEN << "ok", ref >>
    ELSE IF NamedLike(ref, tenantList) = << >>
    THEN << "NoSuchProject", ref >>
    ELSE << "ok", NamedLike(ref, tenantList)[1].id >>

\* Keys of a catalog entry that hold a URL, and the URLs used.
EndpointTypes == {"publicURL", "internalURL"}
Urls == {"u1", "u2"}

\* A catalog entry: a dict with its region and a URL for some endpoint types.
CatalogEntries ==
    UNION {[T \cup {"region"} -> Urls \cup {"r"}] : T \in SUBSET EndpointTypes}

\* What service_catalog.get_endpoints() can hold for one service.
EntryLists ==
    {q \in SeqsUpTo(CatalogEntries, MaxEntries) :
        \A i \in 1 .. Len(q) : q[i]["region"] = "r"
                                /\ \A t \in DOMAIN q[i] \ {"region"} : q[i][t] \in Urls}

\* Session.get_endpoint: self.catalog[service_type][0][self.endpoint_type],
\* KeyError and IndexError turned into EndpointNotFound(service_type)
get_endpoint(cat, st, et) ==
    IF st \notin DOMAIN cat
    THEN << "EndpointNotFound", st >>
    ELSE IF Len(cat[st]) = 0
    THEN << "EndpointNotFound", st >>
    ELSE IF et \notin DOMAIN cat[st][1]
    THEN << "EndpointNotFound", st >>
    ELSE << "ok", cat[st][1][et] >>

\* The backend calls one invocation of a class's delete makes, in order.
DeleteCalls(rc) ==
    CASE rc = "SwiftObjects" -> << "delete_object" >>
      [] rc = "SwiftContainers" -> << "delete_container" >>
      [] rc = "CinderSnapshots" -> << "volume_snapshots.delete" >>
      [] rc = "CinderVolumes" -> << "volumes.delete" >>
      [] rc = "CinderBackups" -> << "backups.delete" >>
      [] rc = "NeutronRouters" -> << "remove_gateway_router", "delete_router" >>
      [] rc = "NeutronInterfaces" -> << "update_router", "remove_interface_router" >>
      [] rc = "NeutronPorts" -> << "delete_port" >>
      [] rc = "NeutronNetworks" -> << "delete_network" >>
      [] rc = "NeutronSecgroups" -> << "delete_security_group" >>
      [] rc = "NeutronFloatingIps" -> << "delete_floatingip" >>
      [] rc = "NovaServers" -> << "servers.delete" >>
      [] rc = "GlanceImages" -> << "images.update", "images.delete" >>

\* Exceptions a backend call made by delete is checked with.
Faults == {"ConnectionError", "Forbidden", "NotFound", "EndpointNotFound",
           "InvalidEndpoint", "ResourceNotEnabled"}

\* A failure of a delete attempt: the step that raises and what it raises.
\* "prep" is the call before the deleting one, where delete makes two calls.
AllFaults == {"prep", "delete"} \X Faults

\* ------------------------------------------------------------ state
VARIABLES
    pc,                 \* position of main()
    own_project,        \* args.own_project
    dry_run,            \* args.dry_run
    dont_delete_project,\* args.dont_delete_project
    cleanup_project,    \* args.cleanup_project, "None" when not given
    tenants,            \* auth backend: the projects, as tenants.list() returns them
    cleanup_project_id, \* main's cleanup_project_id, "None" until resolved
    catalog,            \* services present in the service catalog
    deleteFaults,       \* failures the backends answer a delete with in this run
    session_catalog,    \* Session.catalog: service type -> list of entries
    endpoint_type,      \* Session.endpoint_type
    service_type,       \* argument of the get_endpoint call looked at
    endpoint,           \* what that call returned or raised, NoExc before it
    enabled,            \* auth backend: the project's enabled flag
    isAdmin,            \* auth backend: actor has the admin role on the project
    projectDeleted,     \* auth backend: the project was deleted
    enabled0,           \* enabled flag before the run
    isAdmin0,           \* role membership before the run
    tenant_info,        \* KeystoneManager.tenant_info: "None", "enabled", "disabled"
    remove_admin_role_after_purge,
    disable_project_after_purge,
    rcIdx,              \* index in RESOURCES_CLASSES of the class being processed
    error,              \* perform_on_project's error: "None" or a class name
    resources,          \* length of the listing of the current class
    idx,                \* handles of the listing taken by the for loop
    n,                  \* retry wrapper's counter
    invocations,        \* calls of the wrapped delete in the current retried call
    sleeps,             \* time.sleep(TIMEOUT) calls in the current retried call
    delExc,             \* <<step, exception>> of the latest attempt, if it failed
    callLog,            \* backend calls made by the latest attempt of a delete
    swallowed,          \* classes whose list() caught an exception and returned ''
    listedTotal,        \* resources listed so far in the run
    visited,            \* classes instantiated, in order
    kindOutcome,        \* outcome of each visited class
    deleteLog,          \* <<class, handle>> of every delete that returned
    lastDel,            \* <<class, handle>> of the latest delete attempt
    attempted,          \* classes on which a delete was attempted
    deletionFailed,     \* class named by the DeletionFailed the wrapper raised
    authLog,            \* mutating calls made on the auth backend, in order
    raised,             \* exception that ended the run: <<name, argument>>
    exitStatus          \* process exit status, -1 while running

vars == << pc, session_catalog, endpoint_type, service_type, endpoint, own_project, dry_run, dont_delete_project, cleanup_project,
           tenants, cleanup_project_id, catalog, deleteFaults, enabled,
           isAdmin, projectDeleted, enabled0, isAdmin0, tenant_info,
           remove_admin_role_after_purge, disable_project_after_purge,
           rcIdx, error, resources, idx, n, invocations, sleeps, delExc,
           callLog, swallowed, listedTotal, visited, kindOutcome, deleteLog, lastDel, attempted,
           deletionFailed, authLog, raised, exitStatus >>

\* the Session.get_endpoint call, looked at on its own in SpecEndpoint
endpointVars == << session_catalog, endpoint_type, service_type, endpoint >>

argVars == << endpointVars, own_project, dry_run, dont_delete_project, cleanup_project,
             tenants, catalog, deleteFaults,
             enabled0, isAdmin0 >>
backendVars == << enabled, isAdmin, projectDeleted >>
managerVars == << tenant_info, remove_admin_role_after_purge,
                  disable_project_after_purge >>
passVars == << rcIdx, error, resources, idx, n, invocations, sleeps, delExc,
               callLog, listedTotal, visited, kindOutcome, deleteLog, lastDel,
               attempted, deletionFailed >>

NoExc == << "None", "None" >>

\* main() is entered: nothing resolved, granted, listed or deleted yet
Entered ==
    /\ pc = "start"
    /\ endpoint = NoExc
    /\ cleanup_project_id = "None"
    /\ enabled = enabled0
    /\ isAdmin = isAdmin0
    /\ projectDeleted = FALSE
    /\ tenant_info = "None"
    /\ remove_admin_role_after_purge = FALSE
    /\ disable_project_after_purge = FALSE
    /\ rcIdx = 0
    /\ error = "None"
    /\ resources = 0
    /\ idx = 0
    /\ n = 0
    /\ invocations = 0
    /\ sleeps = 0
    /\ delExc = NoExc
    /\ callLog = << >>
    /\ swallowed = {}
    /\ listedTotal = 0
    /\ visited = << >>
    /\ kindOutcome = << >>
    /\ deleteLog = << >>
    /\ lastDel = << >>
    /\ attempted = {}
    /\ deletionFailed = "None"
    /\ authLog = << >>
    /\ raised = NoExc
    /\ exitStatus = -1

\* Every combination of the command line and of the project's state with a
\* complete catalog, every catalog with one of them; a delete that fails
\* fails in its deleting call, with one kind of exception.
Init ==
    /\ own_project \in BOOLEAN
    /\ dry_run \in BOOLEAN
    /\ dont_delete_project \in BOOLEAN
    /\ catalog \in Catalogs
    /\ deleteFaults = {<< "delete", "Forbidden" >>}
    /\ enabled0 \in BOOLEAN
    /\ isAdmin0 \in BOOLEAN
    \* the actor authenticates against its own project, which is then enabled
    /\ own_project => enabled0
    \* one project "p1" named "a"; it is referred to by name, or a name no
    \* project has is given
    /\ tenants = << [id |-> "p1", name |-> "a"] >>
    /\ cleanup_project \in (IF own_project THEN {"None"} ELSE {"a", "zz"})
    \* the pass over the classes reads the catalog and, of the command line,
    \* dry_run only: an incomplete catalog is checked with one command line
    /\ catalog # Services =>
            /\ ~own_project
            /\ ~dont_delete_project
            /\ ~enabled0
            /\ ~isAdmin0
            /\ cleanup_project = "a"
    /\ session_catalog = [s \in {"compute"} |-> << >>]
    /\ endpoint_type = "publicURL"
    /\ service_type = "compute"
    /\ Entered

\* Another project, disabled and not administered by the actor, purged or
\* dumped with a complete catalog; a delete fails in either of its calls
\* with any of the exceptions.
InitFaults ==
    /\ own_project = FALSE
    /\ dry_run \in BOOLEAN
    /\ dont_delete_project = FALSE
    /\ catalog = Services
    /\ deleteFaults = AllFaults
    /\ enabled0 = FALSE
    /\ isAdmin0 = FALSE
    /\ tenants = << [id |-> "p1", name |-> "a"] >>
    /\ cleanup_project = "p1"
    /\ session_catalog = [s \in {"compute"} |-> << >>]
    /\ endpoint_type = "publicURL"
    /\ service_type = "compute"
    /\ Entered

\* Another project referred to by any id or name, with any list of projects
\* in the auth backend.
InitResolve ==
    /\ own_project = FALSE
    /\ dry_run = FALSE
    /\ dont_delete_project = FALSE
    /\ catalog = Services
    /\ deleteFaults = {<< "delete", "Forbidden" >>}
    /\ enabled0 \in BOOLEAN
    /\ isAdmin0 \in BOOLEAN
    /\ tenants \in TenantLists
    /\ cleanup_project \in ProjectRefs
    /\ session_catalog = [s \in {"compute"} |-> << >>]
    /\ endpoint_type = "publicURL"
    /\ service_type = "compute"
    /\ Entered

\* Any catalog for one service, either endpoint type, a service of the
\* catalog or one that is not in it.
InitEndpoint ==
    /\ own_project = TRUE
    /\ dry_run = TRUE
    /\ dont_delete_project = FALSE
    /\ catalog = Services
    /\ deleteFaults = {<< "delete", "Forbidden" >>}
    /\ enabled0 = TRUE
    /\ isAdmin0 = FALSE
    /\ tenants = << [id |-> "p1", name |-> "a"] >>
    /\ cleanup_project = "None"
    /\ \E q \in EntryLists : session_catalog = [s \in {"compute"} |-> q]
    /\ endpoint_type \in EndpointTypes
    /\ service_type \in {"compute", "image"}
    /\ Entered

\* sys.exit(status), possibly from an except clause of main
Exit(status, exc) ==
    /\ pc' = "exited"
    /\ exitStatus' = status
    /\ raised' = exc

\* ------------------------------------------------------------ main: error exits
\* mutant: a connection error is reported as a failed deletion
MainExitCode_ConnectionAsDeletion(name) ==
    CASE name \in {"ConnectionError", "DeletionFailed", "InvalidEndpoint"} ->
            DeletionFailed_ERROR_CODE
      [] OTHER -> 1

\* main's except clauses around perform_on_project; an exception no clause
\* names leaves the interpreter with a traceback and status 1
MainExitCode(name) ==
    CASE name = "ConnectionError" -> CONNECTION_ERROR_CODE
      [] name \in {"DeletionFailed", "InvalidEndpoint"} -> DeletionFailed_ERROR_CODE
      [] OTHER -> 1

\* an exception leaving perform_on_project: main prints and exits, nothing else
Propagate(exc) == Exit(MainExitCode(exc[1]), exc)

\* ------------------------------------------------------------ main: setup
\* KeystoneManager(...): authenticates
Start ==
    /\ pc = "start"
    /\ \/ /\ pc' = "resolve"
          /\ UNCHANGED << exitStatus, raised >>
       \/ Exit(AUTHENTICATION_FAILED_ERROR_CODE, << "Unauthorized", "None" >>)
    /\ UNCHANGED << argVars, cleanup_project_id, swallowed, backendVars, managerVars, passVars, authLog >>

\* keystone_manager.get_project_id(args.cleanup_project)
GetProjectId ==
    /\ pc = "resolve"
    /\ IF own_project
       THEN \* cleanup_project is None: the id of the current project
            /\ cleanup_project_id' = get_project_id(cleanup_project, tenants)[2]
            /\ pc' = "perform"
            /\ UNCHANGED << tenant_info, exitStatus, raised >>
       ELSE \/ LET r == get_project_id(cleanup_project, tenants) IN
               IF r[1] = "ok"
               THEN /\ cleanup_project_id' = r[2]
                    /\ tenant_info' = IF enabled THEN "enabled" ELSE "disabled"
                    /\ pc' = "elevate"
                    /\ UNCHANGED << exitStatus, raised >>
               ELSE /\ Exit(NoSuchProject_ERROR_CODE, r)
                    /\ UNCHANGED << tenant_info, cleanup_project_id >>
            \* tenants.get or tenants.list is refused
            \/ /\ Exit(NOT_AUTHORIZED, << "Forbidden", "None" >>)
               /\ UNCHANGED << tenant_info, cleanup_project_id >>
    /\ UNCHANGED << argVars, swallowed, backendVars, remove_admin_role_after_purge,
                    disable_project_after_purge, passVars, authLog >>

\* mutant: the flag is set whether or not the grant conflicted
NewlyGranted_Always(conflict) == TRUE

\* mutant: the else branch of the try is missing, the flag stays as it was
NewlyGranted_Never(conflict) == remove_admin_role_after_purge

\* try: become_project_admin / except Conflict: pass / else: flag = True
NewlyGranted(conflict) ==
    IF conflict THEN remove_admin_role_after_purge ELSE TRUE

\* keystone_manager.become_project_admin(cleanup_project_id) and its
\* except Conflict / else clauses
BecomeProjectAdmin ==
    /\ pc = "elevate"
    /\ authLog' = Append(authLog, "grant")
    /\ \/ /\ isAdmin                 \* Conflict: already admin
          /\ remove_admin_role_after_purge' = NewlyGranted(TRUE)
          /\ pc' = "check_enabled"
          /\ UNCHANGED << isAdmin, exitStatus, raised >>
       \/ /\ ~isAdmin
          /\ isAdmin' = TRUE
          /\ remove_admin_role_after_purge' = NewlyGranted(FALSE)
          /\ pc' = "check_enabled"
          /\ UNCHANGED << exitStatus, raised >>
       \/ /\ Exit(NOT_AUTHORIZED, << "Forbidden", "None" >>)
          /\ UNCHANGED << isAdmin, remove_admin_role_after_purge >>
    /\ UNCHANGED << argVars, cleanup_project_id, swallowed, enabled, projectDeleted, tenant_info,
                    disable_project_after_purge, passVars >>

\* disable_project_after_purge = not tenant_info.enabled, then enable_project
EnableProject ==
    /\ pc = "check_enabled"
    /\ disable_project_after_purge' = (tenant_info # "enabled")
    /\ IF disable_project_after_purge'
       THEN \/ /\ enabled' = TRUE
               /\ tenant_info' = "enabled"
               /\ authLog' = Append(authLog, "enable")
               /\ pc' = "perform"
               /\ UNCHANGED << exitStatus, raised >>
            \/ /\ Exit(NOT_AUTHORIZED, << "Forbidden", "None" >>)
               /\ authLog' = Append(authLog, "enable")
               /\ UNCHANGED << enabled, tenant_info >>
       ELSE /\ pc' = "perform"
            /\ UNCHANGED << enabled, tenant_info, authLog, exitStatus, raised >>
    /\ UNCHANGED << argVars, cleanup_project_id, swallowed, isAdmin, projectDeleted,
                    remove_admin_role_after_purge, passVars >>

\* ------------------------------------------------------------ perform_on_project
\* mutant: the dry-run flag is ignored
Action_AlwaysPurge == "purge"

\* action = "dump" if args.dry_run else "purge"
Action == IF dry_run THEN "dump" ELSE "purge"

\* session = Session(...): authenticates again; error = None
PerformStart ==
    /\ pc = "perform"
    /\ \/ /\ pc' = "visit"
          /\ rcIdx' = 1
          /\ error' = "None"
          /\ UNCHANGED << exitStatus, raised >>
       \/ /\ Propagate(<< "ConnectionError", "Session" >>)
          /\ UNCHANGED << rcIdx, error >>
    /\ UNCHANGED << argVars, cleanup_project_id, swallowed, backendVars, managerVars, resources, idx, n,
                    invocations, sleeps, delExc, callLog, listedTotal, visited,
                    kindOutcome, deleteLog, lastDel, attempted, deletionFailed,
                    authLog >>

\* What globals()[rc](session) followed by resources.list() can do.
\* A service missing from the catalog makes the constructor or the first
\* request raise EndpointNotFound; NeutronSecgroups.list turns a 404 into
\* ResourceNotEnabled; the glance client's constructor raises InvalidEndpoint;
\* GlanceImages.list swallows every exception of the listing itself.
ListOutcomes(rc) ==
    IF ServiceOf(rc) \notin catalog
    THEN {"EndpointNotFound"}
    ELSE {"ok", "ConnectionError", "Other"}
         \cup (IF rc = "NeutronSecgroups" THEN {"ResourceNotEnabled"} ELSE {})
         \cup (IF rc = "GlanceImages" THEN {"InvalidEndpoint"} ELSE {})

\* mutant: GlanceImages.list without its try
ListResult_Raises(rc, o) == o

\* what list() returns or raises when the listing request does o:
\* GlanceImages.list has "except: return ''" around it
ListResult(rc, o) ==
    IF rc = "GlanceImages" /\ o \in {"ConnectionError", "Other"}
    THEN "swallowed"
    ELSE o

\* mutant: a bare except that records every other exception as a soft failure
Classify_AbsorbAll(exc) ==
    IF exc \in {"EndpointNotFound", "ResourceNotEnabled"} THEN "skip" ELSE "soft"

\* mutant: InvalidEndpoint is not caught in the loop
Classify_InvalidEndpointFatal(exc) ==
    IF exc \in {"EndpointNotFound", "ResourceNotEnabled"} THEN "skip"
    ELSE "propagate"

\* mutant: EndpointNotFound is not caught in the loop
Classify_EndpointNotFoundFatal(exc) ==
    IF exc = "ResourceNotEnabled" THEN "skip"
    ELSE IF exc = "InvalidEndpoint" THEN "soft"
    ELSE "propagate"

\* the except clauses of the loop body of perform_on_project
Classify(exc) ==
    IF exc \in {"EndpointNotFound", "ResourceNotEnabled"} THEN "skip"
    ELSE IF exc = "InvalidEndpoint" THEN "soft"
    ELSE "propagate"

\* next iteration of "for rc in RESOURCES_CLASSES", or the end of the loop
NextClass ==
    IF rcIdx < NumClasses
    THEN /\ rcIdx' = rcIdx + 1
         /\ pc' = "visit"
    ELSE /\ rcIdx' = rcIdx
         /\ pc' = "pass_end"

SetLast(seq, v) == [seq EXCEPT ![Len(seq)] = v]

\* resources = globals()[rc](session); resources.list() inside purge()/dump()
VisitClass ==
    /\ pc = "visit"
    /\ LET rc == RESOURCES_CLASSES[rcIdx] IN
       /\ visited' = Append(visited, rc)
       /\ \E o \in {ListResult(rc, x) : x \in ListOutcomes(rc)} :
            /\ swallowed' = IF o = "swallowed" THEN swallowed \cup {rc}
                                                ELSE swallowed
            /\ IF o \in {"ok", "swallowed"}
               THEN /\ \E c \in (IF o = "ok"
                                   THEN 0 .. (MaxResources - listedTotal)
                                   ELSE {0}) :
                         /\ resources' = c
                         /\ listedTotal' = listedTotal + c
                    /\ idx' = 0
                    /\ kindOutcome' = Append(kindOutcome, "listed")
                    /\ pc' = "loop"
                    /\ UNCHANGED << rcIdx, error, exitStatus, raised >>
               ELSE CASE Classify(o) = "skip" ->
                           /\ kindOutcome' = Append(kindOutcome, "skipped")
                           /\ NextClass
                           /\ UNCHANGED << error, resources, idx, listedTotal,
                                           exitStatus, raised >>
                      [] Classify(o) = "soft" ->
                           /\ error' = rc
                           /\ kindOutcome' = Append(kindOutcome, "soft")
                           /\ NextClass
                           /\ UNCHANGED << resources, idx, listedTotal,
                                           exitStatus, raised >>
                      [] OTHER ->
                           /\ kindOutcome' = Append(kindOutcome, "raised")
                           /\ Propagate(<< o, rc >>)
                           /\ UNCHANGED << rcIdx, error, resources, idx, listedTotal >>
    /\ UNCHANGED << argVars, cleanup_project_id, backendVars, managerVars, n, invocations, sleeps,
                    delExc, callLog, deleteLog, lastDel, attempted,
                    deletionFailed, authLog >>

\* dump(): print(self.resource_str(resource)) for the next handle
Describe ==
    /\ pc = "loop"
    /\ Action = "dump"
    /\ idx < resources
    /\ idx' = idx + 1
    /\ UNCHANGED << pc, argVars, cleanup_project_id, swallowed, backendVars, managerVars, rcIdx, error,
                    resources, n, invocations, sleeps, delExc, callLog,
                    listedTotal, visited, kindOutcome, deleteLog, lastDel,
                    attempted, deletionFailed, authLog, raised, exitStatus >>

\* mutant: the listing is walked from its end
Handle_Reversed(i, cnt) == cnt - i + 1

\* "for resource in resources": the handle the i-th iteration takes, as its
\* position in the listing of cnt handles
Handle(i, cnt) == i

\* mutant: the counter is kept from one call of the wrapper to the next
WrapperEntry_Carried(prev) == prev

\* wrapper: "n = 0" when the wrapper is entered
WrapperEntry(prev) == 0

\* purge(): the for loop takes the next handle and enters the retry wrapper
RetryStart ==
    /\ pc = "loop"
    /\ Action = "purge"
    /\ idx < resources
    /\ idx' = idx + 1
    /\ n' = WrapperEntry(n)
    /\ invocations' = 0
    /\ sleeps' = 0
    /\ delExc' = NoExc
    /\ pc' = "call"
    /\ UNCHANGED << argVars, cleanup_project_id, swallowed, backendVars, managerVars, rcIdx, error, resources,
                    callLog, listedTotal, visited, kindOutcome, deleteLog,
                    lastDel, attempted, deletionFailed, authLog, raised,
                    exitStatus >>

\* wrapper: func(*args) returns
DeleteReturns ==
    /\ pc = "call"
    /\ invocations' = invocations + 1
    /\ lastDel' = << RESOURCES_CLASSES[rcIdx], Handle(idx, resources) >>
    /\ attempted' = attempted \cup {RESOURCES_CLASSES[rcIdx]}
    /\ deleteLog' = Append(deleteLog,
                           << RESOURCES_CLASSES[rcIdx], Handle(idx, resources) >>)
    /\ delExc' = NoExc
    /\ callLog' = DeleteCalls(RESOURCES_CLASSES[rcIdx])
    /\ pc' = "loop"
    /\ UNCHANGED << argVars, cleanup_project_id, swallowed, backendVars, managerVars, rcIdx, error, resources,
                    idx, n, sleeps, listedTotal, visited, kindOutcome,
                    deletionFailed, authLog, raised, exitStatus >>

\* mutant: the comparison is made after the increment
Exhausted_Late == n = RETRIES + 1

\* mutant: the wrapper never gives up
Exhausted_Never == FALSE

\* mutant: the budget is one retry short
Exhausted_OneShort == n = RETRIES - 1

\* wrapper: func(*args) raises; "if n == RETRIES"
Exhausted == n = RETRIES

\* mutant: "except Exception" lets a connection error through
Caught_NotConnection(exc) == exc # "ConnectionError"

\* mutant: "except Exception" lets through what the loop of
\* perform_on_project reads as a class to skip
Caught_NotSkipped(exc) == exc \notin {"EndpointNotFound", "ResourceNotEnabled"}

\* wrapper: "except Exception" catches whatever func raises
Caught(exc) == TRUE

\* the failures a delete of class rc can meet: only a delete of two calls has
\* a call before the deleting one
FaultsOf(rc) ==
    {f \in deleteFaults : f[1] = "prep" => Len(DeleteCalls(rc)) = 2}

\* mutant: the deleting call is made although the call before it raised
AttemptCalls_PrepIgnored(rc, step) == DeleteCalls(rc)

\* the backend calls an attempt makes when the given step raises: the calls
\* up to the raising one
AttemptCalls(rc, step) ==
    IF step = "prep" THEN SubSeq(DeleteCalls(rc), 1, 1) ELSE DeleteCalls(rc)

\* what perform_on_project does with an exception raised by purge()'s loop
InLoop(exc) ==
    CASE Classify(exc[1]) = "skip" ->
            /\ kindOutcome' = SetLast(kindOutcome, "skipped")
            /\ NextClass
            /\ UNCHANGED << error, exitStatus, raised >>
      [] Classify(exc[1]) = "soft" ->
            /\ kindOutcome' = SetLast(kindOutcome, "soft")
            /\ error' = RESOURCES_CLASSES[rcIdx]
            /\ NextClass
            /\ UNCHANGED << exitStatus, raised >>
      [] OTHER ->
            /\ kindOutcome' = SetLast(kindOutcome, "raised")
            /\ Propagate(exc)
            /\ UNCHANGED << rcIdx, error >>

\* one invocation of func(*args) that raises: the calls it made
FailedAttempt(f) ==
    /\ invocations' = invocations + 1
    /\ lastDel' = << RESOURCES_CLASSES[rcIdx], Handle(idx, resources) >>
    /\ attempted' = attempted \cup {RESOURCES_CLASSES[rcIdx]}
    /\ delExc' = f
    /\ callLog' = AttemptCalls(RESOURCES_CLASSES[rcIdx], f[1])

\* wrapper: func raises and budget remains: n += 1, sleep, loop
DeleteFailsRetry ==
    /\ pc = "call"
    /\ ~Exhausted
    /\ \E f \in FaultsOf(RESOURCES_CLASSES[rcIdx]) :
         /\ FailedAttempt(f)
         /\ IF Caught(f[2])
            THEN /\ n' = n + 1
                 /\ sleeps' = sleeps + 1
                 /\ UNCHANGED << pc, rcIdx, error, kindOutcome, raised, exitStatus >>
            ELSE /\ InLoop(<< f[2], RESOURCES_CLASSES[rcIdx] >>)
                 /\ UNCHANGED << n, sleeps >>
    /\ UNCHANGED << argVars, cleanup_project_id, swallowed, backendVars, managerVars, resources, idx,
                    listedTotal, visited, deleteLog, deletionFailed, authLog >>

\* wrapper: func raises and n == RETRIES: raise DeletionFailed(service_name)
DeleteFailsExhausted ==
    /\ pc = "call"
    /\ Exhausted
    /\ \E f \in FaultsOf(RESOURCES_CLASSES[rcIdx]) :
         /\ FailedAttempt(f)
         /\ IF Caught(f[2])
            THEN /\ deletionFailed' = RESOURCES_CLASSES[rcIdx]
                 /\ InLoop(<< "DeletionFailed", RESOURCES_CLASSES[rcIdx] >>)
            ELSE /\ InLoop(<< f[2], RESOURCES_CLASSES[rcIdx] >>)
                 /\ UNCHANGED deletionFailed
    /\ UNCHANGED << argVars, cleanup_project_id, swallowed, backendVars, managerVars, resources, idx, n,
                    sleeps, listedTotal, visited, deleteLog, authLog >>

\* purge()/dump() return: the listing is used up
ClassDone ==
    /\ pc = "loop"
    /\ idx = resources
    /\ kindOutcome' = SetLast(kindOutcome, "done")
    /\ NextClass
    /\ resources' = 0
    /\ idx' = 0
    /\ n' = 0
    /\ invocations' = 0
    /\ sleeps' = 0
    /\ UNCHANGED << argVars, cleanup_project_id, swallowed, backendVars, managerVars, error, delExc, callLog,
                    listedTotal, visited, deleteLog, lastDel, attempted,
                    deletionFailed, authLog, raised, exitStatus >>

\* "if error: raise error", else return to main
PassEnd ==
    /\ pc = "pass_end"
    /\ IF error # "None"
       THEN Propagate(<< "InvalidEndpoint", error >>)
       ELSE /\ pc' = "post"
            /\ UNCHANGED << exitStatus, raised >>
    /\ UNCHANGED << argVars, cleanup_project_id, swallowed, backendVars, managerVars, passVars, authLog >>

\* ------------------------------------------------------------ main: after the pass
\* mutant: --dont-delete-project is not looked at
DeletesProject_IgnoresKeep == ~dry_run /\ ~own_project

\* mutant: --dry-run is not looked at
DeletesProject_InDryRun == ~dont_delete_project /\ ~own_project

\* mutant: --own-project is not looked at
DeletesProject_IgnoresOwn == ~dry_run /\ ~dont_delete_project

DeletesProject == ~dry_run /\ ~dont_delete_project /\ ~own_project

\* keystone_manager.delete_project(cleanup_project_id); sys.exit(0)
DeleteProject ==
    /\ pc = "post"
    /\ DeletesProject
    /\ projectDeleted' = TRUE
    /\ authLog' = Append(authLog, "deleteProject")
    /\ Exit(0, NoExc)
    /\ UNCHANGED << argVars, cleanup_project_id, swallowed, enabled, isAdmin, managerVars, passVars >>

\* mutant: the role is removed before the project is disabled
UnwindCalls_RevokeFirst ==
    (IF remove_admin_role_after_purge THEN << "revoke" >> ELSE << >>)
    \o (IF disable_project_after_purge THEN << "disable" >> ELSE << >>)

\* the calls of the else branch, in program order
UnwindCalls ==
    (IF disable_project_after_purge THEN << "disable" >> ELSE << >>)
    \o (IF remove_admin_role_after_purge THEN << "revoke" >> ELSE << >>)

\* else: disable_project if disable_project_after_purge, then
\* undo_become_project_admin if remove_admin_role_after_purge; sys.exit(0)
Unwind ==
    /\ pc = "post"
    /\ ~DeletesProject
    /\ authLog' = authLog \o UnwindCalls
    /\ IF disable_project_after_purge
       THEN /\ enabled' = FALSE
            /\ tenant_info' = "disabled"
       ELSE UNCHANGED << enabled, tenant_info >>
    /\ isAdmin' = IF remove_admin_role_after_purge THEN FALSE ELSE isAdmin
    /\ Exit(0, NoExc)
    /\ UNCHANGED << argVars, cleanup_project_id, swallowed, projectDeleted, remove_admin_role_after_purge,
                    disable_project_after_purge, passVars >>

Next ==
    \/ Start
    \/ GetProjectId
    \/ BecomeProjectAdmin
    \/ EnableProject
    \/ PerformStart
    \/ VisitClass
    \/ Describe
    \/ RetryStart
    \/ DeleteReturns
    \/ DeleteFailsRetry
    \/ DeleteFailsExhausted
    \/ ClassDone
    \/ PassEnd
    \/ DeleteProject
    \/ Unwind

Spec == Init /\ [][Next]_vars

\* the run up to the purge, with every reference to the project
NextResolve ==
    \/ Start
    \/ GetProjectId
    \/ BecomeProjectAdmin
    \/ EnableProject

SpecResolve == InitResolve /\ [][NextResolve]_vars

\* session.get_endpoint(service_type), as the constructors of the classes
\* call it
GetEndpoint ==
    /\ endpoint = NoExc
    /\ endpoint' = get_endpoint(session_catalog, service_type, endpoint_type)
    /\ UNCHANGED << pc, session_catalog, endpoint_type, service_type,
                    own_project, dry_run, dont_delete_project, cleanup_project,
                    tenants, catalog, deleteFaults, enabled0, isAdmin0,
                    cleanup_project_id, swallowed, backendVars, managerVars,
                    passVars, authLog, raised, exitStatus >>

NextEndpoint == GetEndpoint

SpecEndpoint == InitEndpoint /\ [][NextEndpoint]_vars

\* the same program with every kind of failure of a delete
SpecFaults == InitFaults /\ [][Next]_vars

\* ------------------------------------------------------------ properties
Range(seq) == {seq[i] : i \in 1 .. Len(seq)}

\* positions of a call in the auth log
Positions(call) == {i \in 1 .. Len(authLog) : authLog[i] = call}

\* the pass over RESOURCES_CLASSES ran to its end (no exception left the loop)
PassCompleted ==
    /\ Len(kindOutcome) = NumClasses
    /\ \A i \in 1 .. NumClasses : kindOutcome[i] \in {"done", "skipped", "soft"}

\* perform_on_project raised to main
PurgeStepRaised ==
    /\ pc = "exited"
    /\ raised[1] \in {"DeletionFailed", "InvalidEndpoint", "ConnectionError"}

\* C1: whenever perform_on_project raises after the run granted itself the
\* admin role and/or enabled the project, the unwind still runs before the
\* process ends: the project is disabled again if the run enabled it and the
\* role is revoked if the run newly granted it.
C1_UnwindAfterRaise ==
    PurgeStepRaised =>
        /\ (disable_project_after_purge => "disable" \in Range(authLog))
        /\ (remove_admin_role_after_purge => "revoke" \in Range(authLog))

\* C2: once the retried delete of a handle of class K raises DeletionFailed(K),
\* the run is over with status 4: K is the last class listed, the failed
\* attempt is the last delete attempt, the failure is neither a skip nor a
\* soft failure, and every delete that returned before it is still recorded.
C2_DeletionFailedAborts ==
    deletionFailed # "None" =>
        /\ pc = "exited"
        /\ exitStatus = DeletionFailed_ERROR_CODE
        /\ raised = << "DeletionFailed", deletionFailed >>
        /\ visited[Len(visited)] = deletionFailed
        /\ rcIdx = Len(visited)
        /\ lastDel = << deletionFailed, idx >>
        /\ kindOutcome[Len(kindOutcome)] = "raised"
        /\ error # deletionFailed
        /\ Len(deleteLog) = listedTotal - resources + idx - 1
        /\ ~projectDeleted

C2_Witness ==
    /\ deletionFailed = "NovaServers"
    /\ Len(deleteLog) = 1
    /\ deleteLog[1][1] = "CinderSnapshots"
    /\ pc = "exited"

\* C3: inside one retried delete, the wrapped delete has been invoked n + 1
\* times and slept n times when it returns, for any n up to RETRIES = 10, so
\* 10 failures followed by a success return normally; DeletionFailed is
\* raised only by the 11th failure, after exactly 10 sleeps, and the wrapped
\* delete is never invoked a 12th time.
C3_RetryBudget ==
    /\ RETRIES = 10
    /\ invocations <= 11
    /\ sleeps <= 10
    /\ (pc = "call" => invocations = n /\ sleeps = n /\ deletionFailed = "None")
    /\ (pc = "loop" /\ invocations > 0 =>
            /\ invocations = n + 1
            /\ sleeps = n
            /\ deletionFailed = "None"
            /\ deleteLog[Len(deleteLog)] = lastDel)
    /\ (deletionFailed # "None" =>
            /\ invocations = 11
            /\ sleeps = 10
            /\ raised[1] = "DeletionFailed")

\* ten failures, then a success: the call returned
C3_Witness ==
    /\ pc = "loop"
    /\ invocations = 11
    /\ sleeps = 10
    /\ deletionFailed = "None"
    /\ raised = NoExc
    /\ deleteLog # << >>

\* pairs <<dependent, dependency>>: the dependent class is deleted first
Dependencies ==
    { << "CinderSnapshots", "CinderVolumes" >>,
      << "CinderBackups", "CinderVolumes" >>,
      << "NovaServers", "NeutronFloatingIps" >>,
      << "NovaServers", "NeutronPorts" >>,
      << "NovaServers", "NeutronNetworks" >>,
      << "NeutronFloatingIps", "NeutronInterfaces" >>,
      << "NeutronFloatingIps", "NeutronRouters" >>,
      << "NeutronInterfaces", "NeutronRouters" >>,
      << "NeutronInterfaces", "NeutronNetworks" >>,
      << "NeutronPorts", "NeutronNetworks" >>,
      << "SwiftObjects", "SwiftContainers" >> }

\* C4: no delete attempt on a dependent class is made once a delete has been
\* attempted on a class it depends on: the latest attempt is never on a
\* dependent of an attempted class, and the deletes that returned are in
\* the same order.
C4_DependentsFirst ==
    /\ (lastDel # << >> =>
            \A rc \in attempted : << lastDel[1], rc >> \notin Dependencies)
    /\ \A i, j \in 1 .. Len(deleteLog) :
          << deleteLog[j][1], deleteLog[i][1] >> \in Dependencies => j < i

C4_Witness ==
    /\ Len(deleteLog) = 2
    /\ deleteLog[1][1] = "NeutronInterfaces"
    /\ deleteLog[2][1] = "NeutronRouters"
    /\ sleeps > 0

\* the order the specification gives, in the program's class names
PlanOrder ==
    << "CinderSnapshots", "CinderBackups", "NovaServers", "NeutronFloatingIps",
       "NeutronInterfaces", "NeutronRouters", "NeutronPorts", "NeutronNetworks",
       "NeutronSecgroups", "GlanceImages", "SwiftObjects", "SwiftContainers",
       "CinderVolumes" >>

\* C5: in either mode the classes instantiated so far are a prefix of
\* Snapshots, Backups, Servers, FloatingIPs, RouterInterfaces, Routers,
\* Ports, Networks, SecurityGroups, Images, Objects, Containers, Volumes;
\* every class before the current one has completed, been skipped or
\* soft-failed; and a pass that returns has visited all thirteen.
C5_PlanOrder ==
    /\ Len(visited) <= Len(PlanOrder)
    /\ visited = SubSeq(PlanOrder, 1, Len(visited))
    /\ Len(kindOutcome) = Len(visited)
    /\ \A i \in 1 .. Len(visited) - 1 :
          kindOutcome[i] \in {"done", "skipped", "soft"}
    /\ (pc \in {"visit", "loop", "call"} => rcIdx \in 1 .. Len(PlanOrder))
    /\ (pc \in {"loop", "call"} => Len(visited) = rcIdx)
    /\ (pc = "visit" => Len(visited) = rcIdx - 1)
    /\ (pc \in {"pass_end", "post"} => visited = PlanOrder)
    /\ (pc = "exited" /\ exitStatus = 0 => visited = PlanOrder)

C5_Witness ==
    /\ pc = "post"
    /\ dry_run
    /\ visited = PlanOrder
    /\ "skipped" \in Range(kindOutcome)
    /\ listedTotal > 0

\* indices of the visited classes that soft-failed
SoftFailed == {i \in 1 .. Len(kindOutcome) : kindOutcome[i] = "soft"}

Max(S) == CHOOSE x \in S : \A y \in S : y <= x

C7_SkippedClass ==
    /\ \A i \in 1 .. Len(visited) :
          (kindOutcome[i] = "skipped" \/ ServiceOf(visited[i]) \notin catalog) =>
            /\ kindOutcome[i] = "skipped"
            /\ visited[i] \notin attempted
            /\ \A j \in 1 .. Len(deleteLog) : deleteLog[j][1] # visited[i]
            /\ (lastDel # << >> => lastDel[1] # visited[i])
            /\ error # visited[i]
            /\ raised[2] # visited[i]
            /\ (i = Len(visited) /\ i < NumClasses =>
                    pc = "visit" /\ rcIdx = i + 1 /\ exitStatus = -1)
            /\ (i = Len(visited) /\ i = NumClasses /\ pc = "exited" =>
                    raised[1] \in {"None", "InvalidEndpoint"})
    /\ (pc = "exited" /\ PassCompleted /\ "soft" \notin Range(kindOutcome) =>
            exitStatus = 0)

\* networking absent from the catalog: its six classes skipped, the rest purged
C7_Witness ==
    /\ pc = "exited"
    /\ exitStatus = 0
    /\ Action = "purge"
    /\ "network" \notin catalog
    /\ \A i \in 4 .. 9 : kindOutcome[i] = "skipped"
    /\ \A i \in (1 .. 3) \cup (10 .. 13) : kindOutcome[i] = "done"
    /\ Len(deleteLog) = 2
    /\ deleteLog[1][1] = "NovaServers"
    /\ deleteLog[2][1] = "SwiftObjects"

\* C8: in a dry run no delete is ever invoked on any resource: the retry
\* wrapper is never entered, whatever the listings return or raise.
C8_DumpNeverDeletes ==
    dry_run =>
        /\ deleteLog = << >>
        /\ lastDel = << >>
        /\ attempted = {}
        /\ invocations = 0
        /\ sleeps = 0
        /\ deletionFailed = "None"
        /\ pc # "call"

\* a dry run that listed and described resources and went through the plan
C8_Witness ==
    /\ dry_run
    /\ pc = "exited"
    /\ exitStatus = 0
    /\ listedTotal = 2
    /\ visited = PlanOrder

\* C9: the role is never revoked in a run whose grant ended in a conflict
\* (the actor was already admin on the project), and the project is never
\* disabled in a run that found it enabled.
C9_UnwindOnlyOwnChanges ==
    /\ (isAdmin0 => "revoke" \notin Range(authLog) /\ isAdmin)
    /\ (enabled0 => "disable" \notin Range(authLog) /\ enabled)
    /\ ("revoke" \in Range(authLog) => remove_admin_role_after_purge /\ ~isAdmin0)
    /\ ("disable" \in Range(authLog) => disable_project_after_purge /\ ~enabled0)

\* already admin, project enabled: the run unwound and called neither
C9_Witness ==
    /\ pc = "exited"
    /\ exitStatus = 0
    /\ ~own_project
    /\ ~projectDeleted
    /\ isAdmin0
    /\ enabled0
    /\ authLog = << "grant" >>

\* C10: a disable call always precedes a revoke call of the same run, and
\* the grant call precedes the enable call.
C10_UnwindReversesSetup ==
    /\ \A i \in Positions("disable") : \A j \in Positions("revoke") : i < j
    /\ \A i \in Positions("grant") : \A j \in Positions("enable") : i < j
    /\ \A i \in Positions("enable") : \A j \in Positions("disable") : i < j
    /\ \A i \in Positions("grant") : \A j \in Positions("revoke") : i < j
    /\ ("enable" \in Range(authLog) => "grant" \in Range(authLog))

C10_Witness ==
    authLog = << "grant", "enable", "disable", "revoke" >>

\* C11: on every exit path, setup exits included, what the run acquired is
\* released: a role the run newly granted is not left granted and a project
\* the run enabled is not left enabled, unless the project was deleted.
C11_ReleasedOnEveryExit ==
    pc = "exited" /\ ~projectDeleted =>
        /\ (isAdmin /\ ~isAdmin0 => "revoke" \in Range(authLog))
        /\ (enabled /\ ~enabled0 => "disable" \in Range(authLog))

\* the status the claim gives for the exception that ended the run
ClaimedStatus(name) ==
    CASE name = "Unauthorized" -> 3
      [] name = "NoSuchProject" -> 2
      [] name = "Forbidden" -> 6
      [] name = "ConnectionError" -> 5
      [] name \in {"DeletionFailed", "InvalidEndpoint"} -> 4
      [] OTHER -> 0

\* no class was listed and no delete attempted
NothingTouched ==
    /\ visited = << >>
    /\ deleteLog = << >>
    /\ lastDel = << >>
    /\ listedTotal = 0

\* C13 as stated: the exit status is 3, 2, 6, 5 or 4 for the named
\* conditions and 0 otherwise.
C13_ExitStatusAsStated ==
    pc = "exited" => exitStatus = ClaimedStatus(raised[1])

\* C13 amended: a run has no status until it exits; it exits with 3, 2, 6,
\* 5 or 4 for the named conditions, with 1 when an exception that no except
\* clause names ends it, and with 0 only when nothing was raised; with
\* status 2, 3 or 6 no class was listed and no delete attempted.
C13_ExitStatus ==
    /\ (pc # "exited" => exitStatus = -1 /\ raised = NoExc)
    /\ (pc = "exited" =>
            /\ exitStatus \in {0, 1, 2, 3, 4, 5, 6}
            /\ exitStatus =
                 IF raised[1] \in {"None", "Unauthorized", "NoSuchProject", "Forbidden",
                                   "ConnectionError", "DeletionFailed", "InvalidEndpoint"}
                 THEN ClaimedStatus(raised[1])
                 ELSE 1
            /\ (exitStatus \in {2, 3, 6} => NothingTouched))

\* a connection error while listing, after a delete
C13_Witness ==
    /\ pc = "exited"
    /\ exitStatus = 5
    /\ raised = << "ConnectionError", "NeutronPorts" >>
    /\ Len(deleteLog) = 1

\* number of deletes of class rc that returned
Deleted(rc) == Cardinality({i \in 1 .. Len(deleteLog) : deleteLog[i][1] = rc})

\* the handles 1 .. Deleted(rc) of the classes k .. 13 of the plan, in order
RECURSIVE ExpectedFrom(_)
ExpectedFrom(k) ==
    IF k > Len(PlanOrder) THEN << >>
    ELSE [h \in 1 .. Deleted(PlanOrder[k]) |-> << PlanOrder[k], h >>]
         \o ExpectedFrom(k + 1)

C16_TenInvocations ==
    /\ invocations <= 10
    /\ (deletionFailed # "None" => invocations = 10)

\* C16 amended: the wrapped delete is invoked at most RETRIES + 1 = 11 times
\* for one handle; ten consecutive failures raise nothing, and the 11th
\* raises DeletionFailed carrying the name of the class being purged.
C16_ElevenInvocations ==
    /\ invocations <= RETRIES + 1
    /\ (invocations <= RETRIES => deletionFailed = "None")
    /\ (deletionFailed # "None" =>
            /\ invocations = RETRIES + 1
            /\ n = RETRIES
            /\ deletionFailed = RESOURCES_CLASSES[rcIdx]
            /\ deletionFailed = lastDel[1])

C16_Witness ==
    /\ deletionFailed = "NeutronRouters"
    /\ invocations = 11
    /\ raised = << "DeletionFailed", "NeutronRouters" >>

C17_EveryFailureRetried ==
    /\ (delExc # NoExc /\ pc = "call" =>
            /\ invocations \in 1 .. RETRIES
            /\ n = invocations
            /\ sleeps = invocations)
    /\ (delExc # NoExc /\ pc # "call" =>
            /\ pc = "exited"
            /\ invocations = RETRIES + 1
            /\ sleeps = RETRIES
            /\ raised = << "DeletionFailed", RESOURCES_CLASSES[rcIdx] >>
            /\ kindOutcome[Len(kindOutcome)] = "raised")
    /\ \A i \in 1 .. Len(visited) :
            kindOutcome[i] \in {"skipped", "soft"} => visited[i] \notin attempted
    /\ error \notin attempted
    /\ (raised[2] \in attempted => raised[1] = "DeletionFailed")

\* ten failures of a security group's delete with ResourceNotEnabled, each
\* slept on, and the 11th attempt pending
C17_Witness ==
    /\ pc = "call"
    /\ lastDel = << "NeutronSecgroups", 1 >>
    /\ delExc = << "delete", "ResourceNotEnabled" >>
    /\ sleeps = RETRIES
    /\ "skipped" \notin Range(kindOutcome)

\* C18: within a class the handles are deleted in listing order, each after
\* the one before it has been deleted, and the listing is taken once, before
\* the first delete of the class.
C18_ListingOrder ==
    /\ [](/\ \A i \in 1 .. Len(deleteLog) :
                deleteLog[i][2] =
                    1 + Cardinality({j \in 1 .. (i - 1) : deleteLog[j][1] = deleteLog[i][1]})
          /\ (pc = "call" =>
                /\ Deleted(RESOURCES_CLASSES[rcIdx]) = idx - 1
                /\ (invocations > 0 => lastDel = << RESOURCES_CLASSES[rcIdx], idx >>))
          /\ (pc = "loop" /\ ~dry_run => Deleted(RESOURCES_CLASSES[rcIdx]) = idx))
    /\ [][/\ (lastDel' # lastDel /\ lastDel # << >> /\ lastDel'[1] = lastDel[1] =>
                /\ lastDel'[2] = lastDel[2] + 1
                /\ deleteLog[Len(deleteLog)] = lastDel)
          /\ (pc \in {"call", "loop"} /\ pc' \in {"call", "loop"} =>
                /\ rcIdx' = rcIdx
                /\ resources' = resources
                /\ visited' = visited)
          /\ (visited' # visited => RESOURCES_CLASSES[rcIdx] \notin attempted')]_vars

\* the second try on the second server, the first server deleted
C18_Witness ==
    /\ pc = "call"
    /\ lastDel = << "NovaServers", 2 >>
    /\ invocations = 1
    /\ deleteLog = << << "NovaServers", 1 >> >>

\* C19: every call of the wrapper starts its counter at 0 whatever the calls
\* before it consumed, the counter counts the failures of the current call
\* only, and a delete that returns changes nothing a later call reads.
C19_PerCallBudget ==
    /\ [](pc = "call" => n = invocations /\ n <= RETRIES)
    /\ [][/\ (pc = "loop" /\ pc' = "call" =>
                /\ n' = 0
                /\ invocations' = 0
                /\ sleeps' = 0
                /\ idx' = idx + 1)
          /\ (pc = "call" /\ pc' = "loop" =>
                /\ deleteLog' = Append(deleteLog, lastDel')
                /\ UNCHANGED << rcIdx, resources, idx, error, deletionFailed >>)]_vars

\* a handle deleted at its 11th attempt, another handle of the class left
C19_Witness ==
    /\ pc = "loop"
    /\ ~dry_run
    /\ n = RETRIES
    /\ sleeps = RETRIES
    /\ idx = 1
    /\ resources = 2

\* C20: an attempt on a router, a router interface or an image makes its
\* preparatory call first and its deleting call second; when the preparatory
\* call raises, the deleting call of that attempt is not made, the failure
\* counts against the budget as any other, and the next attempt starts with
\* the preparatory call again.
C20_PreparatoryStep ==
    /\ [](lastDel # << >> =>
            LET rc == lastDel[1] IN
            /\ callLog # << >>
            /\ callLog[1] = DeleteCalls(rc)[1]
            /\ (delExc[1] = "prep" =>
                    /\ rc \in {"NeutronRouters", "NeutronInterfaces", "GlanceImages"}
                    /\ Len(callLog) = 1)
            /\ (delExc[1] # "prep" => callLog = DeleteCalls(rc))
            /\ (rc = "NeutronRouters" /\ delExc[1] # "prep" =>
                    callLog = << "remove_gateway_router", "delete_router" >>)
            /\ (rc = "NeutronInterfaces" /\ delExc[1] # "prep" =>
                    callLog = << "update_router", "remove_interface_router" >>)
            /\ (rc = "GlanceImages" /\ delExc[1] # "prep" =>
                    callLog = << "images.update", "images.delete" >>)
            /\ (pc = "call" /\ delExc # NoExc => n = invocations /\ sleeps = n))
    /\ [][invocations' = invocations + 1 =>
            /\ callLog'[1] = DeleteCalls(RESOURCES_CLASSES[rcIdx])[1]
            /\ (delExc' # NoExc /\ pc' = "call" => n' = n + 1)]_vars

\* a router's third attempt stopped by its gateway removal
C20_Witness ==
    /\ pc = "call"
    /\ lastDel = << "NeutronRouters", 1 >>
    /\ delExc = << "prep", "Forbidden" >>
    /\ callLog = << "remove_gateway_router" >>
    /\ n = 3

\* C15: a reference that is a project's id resolves to that id; otherwise a
\* reference that is the name of exactly one project resolves to that
\* project's id; otherwise, no project or several having that name, the run
\* exits 2 with NoSuchProject before any call that changes the auth backend.
C15_ProjectResolution ==
    (~own_project /\ pc \notin {"start", "resolve"} /\ raised[1] \notin {"Unauthorized", "Forbidden"}) =>
        LET named == {i \in 1 .. Len(tenants) : tenants[i].name = cleanup_project} IN
        IF \E i \in 1 .. Len(tenants) : tenants[i].id = cleanup_project
        THEN cleanup_project_id = cleanup_project
        ELSE IF Cardinality(named) = 1
        THEN \E i \in named : cleanup_project_id = tenants[i].id
        ELSE /\ pc = "exited"
             /\ exitStatus = NoSuchProject_ERROR_CODE
             /\ raised[1] = "NoSuchProject"
             /\ cleanup_project_id = "None"
             /\ authLog = << >>

\* C22: the project is deleted only in a purge of another project without
\* --dont-delete-project whose pass over the classes returned without error;
\* delete_project is called at most once, it is the last call of the run and
\* no delete attempt on a resource follows it.
C22_ProjectDeletedLast ==
    /\ [](/\ (projectDeleted =>
                /\ ~dry_run
                /\ ~own_project
                /\ ~dont_delete_project
                /\ PassCompleted
                /\ SoftFailed = {}
                /\ error = "None"
                /\ deletionFailed = "None"
                /\ raised = NoExc
                /\ Len(deleteLog) = listedTotal)
          /\ Cardinality(Positions("deleteProject")) <= 1
          /\ ("deleteProject" \in Range(authLog) <=> projectDeleted)
          /\ (projectDeleted =>
                /\ authLog[Len(authLog)] = "deleteProject"
                /\ pc = "exited"
                /\ exitStatus = 0))
    /\ [][projectDeleted =>
            UNCHANGED << deleteLog, lastDel, invocations, authLog >>]_vars
    /\ [][projectDeleted' /\ ~projectDeleted =>
            pc = "post" /\ UNCHANGED << deleteLog, lastDel, visited >>]_vars

\* the project deleted after its two resources, a volume the last of them
C22_Witness ==
    /\ projectDeleted
    /\ deleteLog = << << "NovaServers", 1 >>, << "CinderVolumes", 1 >> >>
    /\ lastDel = << "CinderVolumes", 1 >>
    /\ authLog = << "grant", "enable", "deleteProject" >>

\* C24: with --own-project no mutating call is made on the auth backend on
\* any path: the auth log stays empty, the enabled flag, the role and the
\* project are as before the run and neither unwind flag is ever set.
C24_OwnProjectAuthUntouched ==
    own_project =>
        /\ authLog = << >>
        /\ enabled = enabled0
        /\ isAdmin = isAdmin0
        /\ ~projectDeleted
        /\ ~remove_admin_role_after_purge
        /\ ~disable_project_after_purge
        /\ tenant_info = "None"
        /\ pc \notin {"elevate", "check_enabled"}

\* a purge of the actor's own project that deleted two resources and exited 0
C24_Witness ==
    /\ own_project
    /\ ~dry_run
    /\ ~dont_delete_project
    /\ pc = "exited"
    /\ exitStatus = 0
    /\ Len(deleteLog) = 2

\* C25: a dry run on another project grants the role and, if the project is
\* disabled, enables it before the first class is listed; when it exits 0 the
\* enabled flag and the role are what they were before the run and the
\* project is not deleted.
C25_DryRunRestores ==
    dry_run /\ ~own_project =>
        /\ (pc \in {"perform", "visit", "loop", "pass_end", "post"} =>
                /\ "grant" \in Range(authLog)
                /\ isAdmin
                /\ enabled
                /\ (~enabled0 => authLog = << "grant", "enable" >>)
                /\ (enabled0 => authLog = << "grant" >>))
        /\ (visited # << >> => "grant" \in Range(authLog) /\ (~enabled0 => "enable" \in Range(authLog)))
        /\ (pc = "exited" /\ exitStatus = 0 =>
                /\ enabled = enabled0
                /\ isAdmin = isAdmin0
                /\ ~projectDeleted
                /\ "deleteProject" \notin Range(authLog)
                /\ deleteLog = << >>)

\* a dry run on a disabled project the actor did not administer: both undone
C25_Witness ==
    /\ dry_run
    /\ ~own_project
    /\ pc = "exited"
    /\ exitStatus = 0
    /\ ~enabled0
    /\ ~isAdmin0
    /\ authLog = << "grant", "enable", "disable", "revoke" >>
    /\ listedTotal = 2
    /\ ~enabled
    /\ ~isAdmin

\* the runs of SpecFaults in which a step that can be taken is eventually
\* taken: each backend call returns or raises
SpecLive == SpecFaults /\ WF_vars(Next)

\* C26: every run reaches the process exit, with at most RETRIES + 1 = 11
\* invocations and RETRIES = 10 sleeps for any one handle, at most
\* MaxResources handles and thirteen classes, whatever the deletes do.
C26_Terminates ==
    /\ [](/\ invocations <= RETRIES + 1
          /\ sleeps <= RETRIES
          /\ n <= RETRIES
          /\ idx <= resources
          /\ listedTotal <= MaxResources
          /\ rcIdx <= NumClasses)
    /\ <>[](pc = "exited" /\ exitStatus # -1)

\* two handles listed, every attempt on the first one failed
C26_Witness ==
    /\ pc = "exited"
    /\ delExc = << "delete", "NotFound" >>
    /\ listedTotal = 2
    /\ deleteLog = << >>
    /\ invocations = RETRIES + 1
    /\ sleeps = RETRIES
    /\ exitStatus = 4

\* C23: a failure of the images listing itself is caught by the listing: the
\* class is then purged or dumped as one with no resource, no image delete is
\* attempted, the class is neither skipped nor a soft failure, no error of
\* the images listing ever ends the run, and no other class's listing is
\* treated so.
C23_ImageListingSwallowed ==
    /\ swallowed \subseteq {"GlanceImages"}
    /\ (raised[2] = "GlanceImages" => raised[1] \in {"InvalidEndpoint", "DeletionFailed"})
    /\ ("GlanceImages" \in swallowed =>
            LET i == CHOOSE k \in 1 .. Len(visited) : visited[k] = "GlanceImages" IN
            /\ "GlanceImages" \in Range(visited)
            /\ kindOutcome[i] \in {"listed", "done"}
            /\ (i = Len(visited) /\ pc = "loop" => resources = 0 /\ idx = 0)
            /\ "GlanceImages" \notin attempted
            /\ Deleted("GlanceImages") = 0
            /\ error # "GlanceImages"
            /\ raised[2] # "GlanceImages"
            /\ (pc = "exited" /\ PassCompleted /\ SoftFailed = {} => exitStatus = 0))

\* the images listing failed, the run deleted what it had listed, then the
\* project, and exited 0
C23_Witness ==
    /\ swallowed = {"GlanceImages"}
    /\ pc = "exited"
    /\ exitStatus = 0
    /\ projectDeleted
    /\ deleteLog = << << "NovaServers", 1 >>, << "SwiftContainers", 1 >> >>

\* C21: get_endpoint returns the URL the first entry of the service having
\* the configured endpoint type gives for it, and raises EndpointNotFound
\* only when the service is not in the catalog or no entry of it has the type.
C21_FirstMatchingEndpoint ==
    endpoint # NoExc =>
        LET es == IF service_type \in DOMAIN session_catalog
                  THEN session_catalog[service_type] ELSE << >>
            having == {i \in 1 .. Len(es) : endpoint_type \in DOMAIN es[i]}
        IN  IF having = {}
            THEN endpoint = << "EndpointNotFound", service_type >>
            ELSE \E i \in having :
                    /\ \A j \in having : i <= j
                    /\ endpoint = << "ok", es[i][endpoint_type] >>

====
